---- MODULE Spec2Model ----
(***************************************************************************)
(* One run of the trading bot's command line (src/cli.py main), with the   *)
(* validators (src/bot/validators.py), the order orchestrator              *)
(* (src/bot/orders.py) and the REST client (src/bot/client.py).            *)
(*                                                                         *)
(* Text is modelled at two levels.  A symbol is a sequence of characters,  *)
(* so that strip(), upper(), isalpha() and len() are computed.  Every      *)
(* other text (side, type, quantity, price, query strings, log lines) is   *)
(* a TLA+ string; decimal parsing is the table Decimal() below.            *)
(* Optional[str] is a sequence of length 0 (None) or 1.                    *)
(***************************************************************************)
EXTENDS Integers, Sequences, FiniteSets, TLC

(***************************************************************************)
(* Bounds of the model.                                                    *)
(***************************************************************************)
\* time.time() readings the signer may capture: 1..MaxClock
MaxClock == 1

(***************************************************************************)
(* Program constants.                                                      *)
(***************************************************************************)
SYMBOL_MIN_LEN == 3
SYMBOL_MAX_LEN == 20
VALID_SIDES == {"BUY", "SELL"}
VALID_ORDER_TYPES == {"MARKET", "LIMIT", "STOP_MARKET"}
\* Retry(total=3, status_forcelist=[...], allowed_methods=["GET", "POST"])
RetryTotal == 3
StatusForcelist == {429, 500, 502, 503, 504}
\* urllib3.util.retry.Retry.RETRY_AFTER_STATUS_CODES, honoured because
\* _RETRY leaves respect_retry_after_header at its default (True)
RetryAfterStatusCodes == {413, 429, 503}
RecvWindow == 5000
ORDER_ENDPOINT == "/fapi/v1/order"
TIME_ENDPOINT == "/fapi/v1/time"

(***************************************************************************)
(* Characters and strings.                                                 *)
(***************************************************************************)
Letters == {"A", "B", "C", "T", "b", "c", "t"}

UpperChar(c) ==
    CASE c = "b" -> "B"
      [] c = "c" -> "C"
      [] c = "t" -> "T"
      [] OTHER -> c

RECURSIVE LStrip(_)
LStrip(s) == IF s # <<>> /\ Head(s) = " " THEN LStrip(Tail(s)) ELSE s

RECURSIVE RStrip(_)
RStrip(s) ==
    IF s # <<>> /\ s[Len(s)] = " " THEN RStrip(SubSeq(s, 1, Len(s) - 1)) ELSE s

\* str.strip()
Strip(s) == RStrip(LStrip(s))

\* str.upper()
Upper(s) == [i \in 1..Len(s) |-> UpperChar(s[i])]

\* str.isalpha(): non-empty and every character a letter
IsAlpha(s) == s # <<>> /\ \A i \in 1..Len(s) : s[i] \in Letters

\* the text of a character sequence
RECURSIVE Text(_)
Text(s) == IF s = <<>> THEN "" ELSE Head(s) \o Text(Tail(s))

\* side.strip().upper() / order_type.strip().upper() on the texts in use
StripUpper(s) ==
    CASE s = "buy" -> "BUY"
      [] s = " SELL" -> "SELL"
      [] s = "limit" -> "LIMIT"
      [] OTHER -> s

StripStr(s) == IF s = " " THEN "" ELSE s

(***************************************************************************)
(* decimal.Decimal.  A value is [kind, v, text]: kind "num" with v the     *)
(* value in hundredths, "nan", "inf" (v the sign), "invalid" when the      *)
(* constructor raises InvalidOperation, "none" for Python's None.  text is *)
(* str() of the value.                                                     *)
(***************************************************************************)
NoneDec == [kind |-> "none", v |-> 0, text |-> "None"]

Decimal(s) ==
    CASE s = "0.01"     -> [kind |-> "num", v |-> 1, text |-> "0.01"]
      [] s = "1E+2"     -> [kind |-> "num", v |-> 10000, text |-> "1E+2"]
      [] s = "30000"    -> [kind |-> "num", v |-> 3000000, text |-> "30000"]
      [] s = "0"        -> [kind |-> "num", v |-> 0, text |-> "0"]
      [] s = "-1"       -> [kind |-> "num", v |-> -100, text |-> "-1"]
      [] s = "NaN"      -> [kind |-> "nan", v |-> 0, text |-> "NaN"]
      [] s = "Infinity" -> [kind |-> "inf", v |-> 1, text |-> "Infinity"]
      [] OTHER          -> [kind |-> "invalid", v |-> 0, text |-> s]

\* d <= 0 : "raise" stands for the InvalidOperation a comparison with NaN signals
LeZero(d) ==
    CASE d.kind = "nan" -> "raise"
      [] d.kind = "inf" -> IF d.v < 0 THEN "true" ELSE "false"
      [] OTHER -> IF d.v <= 0 THEN "true" ELSE "false"

IsPositiveDecimal(d) == d.kind \in {"num", "inf"} /\ d.v > 0

(***************************************************************************)
(* validators.py.  A validator returns [exc, val]: exc "" on return,       *)
(* otherwise the exception type raised.                                    *)
(***************************************************************************)
Ret(val) == [exc |-> "", val |-> val]
Raise(exc, val) == [exc |-> exc, val |-> val]

validate_symbol(symbol) ==
    IF symbol = <<>> \/ Strip(symbol) = <<>> THEN Raise("ValueError", "")
    ELSE LET sym == Upper(Strip(symbol)) IN
         IF ~IsAlpha(sym) THEN Raise("ValueError", "")
         ELSE IF ~(SYMBOL_MIN_LEN <= Len(sym) /\ Len(sym) <= SYMBOL_MAX_LEN)
              THEN Raise("ValueError", "")
              ELSE Ret(Text(sym))

validate_side(side) ==
    LET s == StripUpper(side) IN
    IF s \notin VALID_SIDES THEN Raise("ValueError", "") ELSE Ret(s)

validate_order_type(order_type) ==
    LET t == StripUpper(order_type) IN
    IF t \notin VALID_ORDER_TYPES THEN Raise("ValueError", "") ELSE Ret(t)

validate_quantity(quantity) ==
    LET qty == Decimal(quantity) IN
    IF qty.kind = "invalid" THEN Raise("ValueError", NoneDec)
    ELSE CASE LeZero(qty) = "raise" -> Raise("InvalidOperation", NoneDec)
           [] LeZero(qty) = "true"  -> Raise("ValueError", NoneDec)
           [] OTHER -> Ret(qty)

validate_price_NoneAccepted(price, order_type) ==
    IF order_type = "MARKET" \/ price = <<>> THEN Ret(NoneDec)
    ELSE LET p == Decimal(price[1]) IN
         IF p.kind = "invalid" THEN Raise("ValueError", NoneDec)
         ELSE CASE LeZero(p) = "raise" -> Raise("InvalidOperation", NoneDec)
                [] LeZero(p) = "true"  -> Raise("ValueError", NoneDec)
                [] OTHER -> Ret(p)

validate_price(price, order_type) ==
    IF order_type = "MARKET" THEN Ret(NoneDec)
    ELSE IF price = <<>> \/ StripStr(price[1]) = "" THEN Raise("ValueError", NoneDec)
    ELSE LET p == Decimal(price[1]) IN
         IF p.kind = "invalid" THEN Raise("ValueError", NoneDec)
         ELSE CASE LeZero(p) = "raise" -> Raise("InvalidOperation", NoneDec)
                [] LeZero(p) = "true"  -> Raise("ValueError", NoneDec)
                [] OTHER -> Ret(p)

NoOrder ==
    [symbol |-> "", side |-> "", order_type |-> "", quantity |-> NoneDec,
     price |-> NoneDec]

\* the five validators run in this order; the first exception propagates
validate_all(symbol, side, order_type, quantity, price) ==
    LET sym == validate_symbol(symbol)
        s   == validate_side(side)
        ot  == validate_order_type(order_type)
        qty == validate_quantity(quantity)
        p   == validate_price(price, ot.val)
    IN  IF sym.exc # "" THEN Raise(sym.exc, NoOrder)
        ELSE IF s.exc # "" THEN Raise(s.exc, NoOrder)
        ELSE IF ot.exc # "" THEN Raise(ot.exc, NoOrder)
        ELSE IF qty.exc # "" THEN Raise(qty.exc, NoOrder)
        ELSE IF p.exc # "" THEN Raise(p.exc, NoOrder)
        ELSE Ret([symbol |-> sym.val, side |-> s.val, order_type |-> ot.val,
                  quantity |-> qty.val, price |-> p.val])

(***************************************************************************)
(* Python dicts keep insertion order: a dict is a sequence of [k, v];      *)
(* assigning an existing key keeps its position.                           *)
(***************************************************************************)
HasKey(d, k) == \E i \in 1..Len(d) : d[i].k = k

Get(d, k) == d[CHOOSE i \in 1..Len(d) : d[i].k = k].v

Put(d, k, v) ==
    IF HasKey(d, k)
    THEN [i \in 1..Len(d) |-> IF d[i].k = k THEN [k |-> k, v |-> v] ELSE d[i]]
    ELSE Append(d, [k |-> k, v |-> v])

Keys(d) == [i \in 1..Len(d) |-> d[i].k]

\* {k: v for k, v in d.items() if k != key}
RECURSIVE Without(_, _)
Without(d, key) ==
    IF d = <<>> THEN <<>>
    ELSE IF Head(d).k = key THEN Without(Tail(d), key)
    ELSE <<Head(d)>> \o Without(Tail(d), key)

(***************************************************************************)
(* urllib.parse.urlencode: quote_plus(k)=quote_plus(v) joined by "&".      *)
(* requests encodes the params of a request the same way, item by item.    *)
(***************************************************************************)
QuotePlus(s) == IF s = "1E+2" THEN "1E%2B2" ELSE s

Pieces(d) == [i \in 1..Len(d) |-> QuotePlus(d[i].k) \o "=" \o QuotePlus(d[i].v)]

RECURSIVE JoinAmp(_)
JoinAmp(ps) ==
    IF ps = <<>> THEN ""
    ELSE IF Len(ps) = 1 THEN ps[1]
    ELSE ps[1] \o "&" \o JoinAmp(Tail(ps))

urlencode(d) == JoinAmp(Pieces(d))

\* hmac.new(secret, msg, sha256).hexdigest(): a digest that names its inputs
Hmac(secret, msg) == "hmac[" \o secret \o "|" \o msg \o "]"

(***************************************************************************)
(* BinanceFuturesClient._sign                                              *)
(***************************************************************************)
_sign_BeforeTimestamp(params, secret, ts) ==
    LET p1 == Put(params, "recvWindow", ToString(RecvWindow))
        query_string == urlencode(p1)
        p2 == Put(p1, "signature", Hmac(secret, query_string))
    IN  [params |-> Put(p2, "timestamp", ToString(ts)), query_string |-> query_string]

_sign(params, secret, ts) ==
    LET p1 == Put(params, "recvWindow", ToString(RecvWindow))
        p2 == Put(p1, "timestamp", ToString(ts))
        query_string == urlencode(p2)
        signature == Hmac(secret, query_string)
    IN  [params |-> Put(p2, "signature", signature), query_string |-> query_string]

(***************************************************************************)
(* orders.place_order, lines 112-130: the payload.  [exc, val].            *)
(***************************************************************************)
BuildPayload_TifOnStop(o) ==
    LET base == <<[k |-> "symbol", v |-> o.symbol], [k |-> "side", v |-> o.side],
                  [k |-> "type", v |-> o.order_type],
                  [k |-> "quantity", v |-> o.quantity.text]>>
    IN  IF o.order_type = "MARKET" THEN Ret(base)
        ELSE IF o.price.kind = "none" THEN Raise("ValueError", <<>>)
        ELSE IF o.order_type = "LIMIT"
             THEN Ret(Put(Put(base, "price", o.price.text), "timeInForce", "GTC"))
             ELSE Ret(Put(Put(base, "stopPrice", o.price.text), "timeInForce", "GTC"))

BuildPayload(o) ==
    LET base == <<[k |-> "symbol", v |-> o.symbol], [k |-> "side", v |-> o.side],
                  [k |-> "type", v |-> o.order_type],
                  [k |-> "quantity", v |-> o.quantity.text]>>
    IN  IF o.order_type = "LIMIT"
        THEN IF o.price.kind = "none" THEN Raise("ValueError", <<>>)
             ELSE Ret(Put(Put(base, "price", o.price.text), "timeInForce", "GTC"))
        ELSE IF o.order_type = "STOP_MARKET"
        THEN IF o.price.kind = "none" THEN Raise("ValueError", <<>>)
             ELSE Ret(Put(base, "stopPrice", o.price.text))
        ELSE Ret(base)

(***************************************************************************)
(* HTTP.  A response body is [json, type, has_code, code, has_msg, msg,    *)
(* orderId, avgPrice, has_time, text]: json says whether response.json()   *)
(* parses it, type the Python type of the parsed value.                    *)
(***************************************************************************)
Body(json, type, has_code, code, has_msg, msg, orderId, avgPrice, has_time, text) ==
    [json |-> json, type |-> type, has_code |-> has_code, code |-> code,
     has_msg |-> has_msg, msg |-> msg, orderId |-> orderId, avgPrice |-> avgPrice,
     has_time |-> has_time, text |-> text]

NoBody    == Body(FALSE, "", FALSE, 0, FALSE, "", 0, "", FALSE, "")
HtmlBody  == Body(FALSE, "text", FALSE, 0, FALSE, "", 0, "", FALSE, "<html>Bad Gateway</html>")
OrderBody == Body(TRUE, "dict", FALSE, 0, FALSE, "", 5, "", FALSE,
                  "{orderId:5,status:FILLED,executedQty:0.01}")
OrderBadAvgBody == Body(TRUE, "dict", FALSE, 0, FALSE, "", 6, "n/a", FALSE,
                        "{orderId:6,avgPrice:n/a}")
ErrorBody == Body(TRUE, "dict", TRUE, -1102, TRUE, "bad", 0, "", FALSE,
                  "{code:-1102,msg:bad}")
Code200Body == Body(TRUE, "dict", TRUE, 200, TRUE, "ok", 7, "", FALSE,
                    "{code:200,msg:ok,orderId:7}")
CodeOnlyBody == Body(TRUE, "dict", TRUE, -2019, FALSE, "", 0, "", FALSE, "{code:-2019}")
MsgOnlyBody == Body(TRUE, "dict", FALSE, 0, TRUE, "down", 0, "", FALSE, "{msg:down}")
ListBody  == Body(TRUE, "list", FALSE, 0, FALSE, "", 0, "", FALSE, "[]")
NullBody  == Body(TRUE, "null", FALSE, 0, FALSE, "", 0, "", FALSE, "null")
TimeBody  == Body(TRUE, "dict", FALSE, 0, FALSE, "", 0, "", TRUE, "{serverTime:1}")

\* what one attempt of the connection pool ends in
Outcome(kind, status, retry_after, body) ==
    [kind |-> kind, status |-> status, retry_after |-> retry_after, body |-> body]

NoOutcome == Outcome("none", 0, FALSE, NoBody)

TransportErrors ==
    { Outcome(k, 0, FALSE, NoBody) : k \in {"connect_timeout", "connect_error", "read_error"} }

PostBodies ==
    {HtmlBody, OrderBody, OrderBadAvgBody, ErrorBody, Code200Body, CodeOnlyBody,
     MsgOnlyBody, ListBody, NullBody}

PostOutcomes ==
    TransportErrors
    \cup { Outcome("response", st, FALSE, b) : st \in {200, 400}, b \in PostBodies }
    \cup { Outcome("response", 413, ra, HtmlBody) : ra \in BOOLEAN }
    \cup { Outcome("response", st, FALSE, ErrorBody) : st \in {429, 503} }
    \cup { Outcome("response", 500, FALSE, HtmlBody) }

GetOutcomes ==
    TransportErrors
    \cup { Outcome("response", 200, FALSE, b) : b \in {TimeBody, OrderBody, HtmlBody, ListBody} }
    \cup { Outcome("response", st, FALSE, ErrorBody) : st \in {400, 503} }

(***************************************************************************)
(* urllib3's Retry as configured by _RETRY, one attempt: Retry.is_retry    *)
(* and Retry.increment.  total is the budget left before the attempt.      *)
(* Returns what the pool does next and the budget left.                    *)
(***************************************************************************)
IsRetryStatus(total, o) ==
    \/ o.status \in StatusForcelist
    \/ total # 0 /\ o.retry_after /\ o.status \in RetryAfterStatusCodes

RetryStep_AnyErrorStatus(total, o) ==
    IF o.kind = "response" /\ o.status < 400
    THEN [do |-> "return", total |-> total]
    ELSE IF total - 1 < 0
         THEN [do |-> "raise", total |-> total - 1]
         ELSE [do |-> "retry", total |-> total - 1]

RetryStep(total, o) ==
    IF o.kind = "response" /\ ~IsRetryStatus(total, o)
    THEN [do |-> "return", total |-> total]
    ELSE IF total - 1 < 0
         THEN [do |-> "raise", total |-> total - 1]
         ELSE [do |-> "retry", total |-> total - 1]

\* the kind of outcome o, as far as retrying goes
OutcomeClass(o) ==
    CASE o.kind \in {"connect_timeout", "connect_error"} -> "connect_error"
      [] o.kind = "read_error" -> "read_error"
      [] o.kind = "response" /\ o.status \in StatusForcelist -> "status_forcelist"
      [] o.kind = "response" /\ o.retry_after /\ o.status \in RetryAfterStatusCodes ->
            "retry_after_header"
      [] o.kind = "response" -> "other_response"
      [] OTHER -> "none"

\* requests.adapters.HTTPAdapter.send: the exception MaxRetryError becomes
RequestsException(o) ==
    CASE o.kind = "connect_timeout" -> "ConnectTimeout"
      [] o.kind = "response" -> "RetryError"
      [] OTHER -> "requests.ConnectionError"

\* str() of that exception names the request target, query string included
MaxRetryText(path, params) ==
    <<"Max retries exceeded with url:", path>> \o Pieces(params)

(***************************************************************************)
(* Results and log lines.  A call ends in [exc, code, msg, data]: exc ""   *)
(* when it returns data, otherwise the type of the exception raised, with  *)
(* BinanceAPIError's code and the pieces of the exception's text in msg.   *)
(***************************************************************************)
Result(exc, code, msg, data) == [exc |-> exc, code |-> code, msg |-> msg, data |-> data]

NoResult == Result("none", 0, <<>>, NoBody)

Line(logger, level, parts) == [logger |-> logger, level |-> level, parts |-> parts]

(***************************************************************************)
(* BinanceFuturesClient._post, lines 153-160: the classification of a      *)
(* parsed body.  response.ok is status < 400.                              *)
(***************************************************************************)
ResponseOk(status) == status < 400

ApiError(status, data) ==
    Result("BinanceAPIError",
           IF data.has_code THEN data.code ELSE status,
           <<IF data.has_msg THEN data.msg ELSE data.text>>, data)

Classify(status, data) ==
    IF ~ResponseOk(status)
    THEN \* data.get(...) on a value that is no dict
         IF data.type = "dict" THEN ApiError(status, data)
         ELSE Result("AttributeError", 0, <<"object has no attribute 'get'">>, data)
    ELSE \* "code" in data
         IF data.type = "null"
    THEN Result("TypeError", 0, <<"argument of type 'NoneType' is not iterable">>, data)
    ELSE IF data.type = "dict" /\ data.has_code /\ data.code # 200
    THEN ApiError(status, data)
    ELSE Result("", 0, <<>>, data)

(***************************************************************************)
(* BinanceFuturesClient._post, lines 130-160, once the session has         *)
(* returned outcome o or (raised) given up on it: [res, logs].             *)
(***************************************************************************)
PostReturn_StatusCode(o, raised, params) ==
    [res |-> IF raised THEN Result("ConnectionError", 0, <<"Network error:">>, NoBody)
             ELSE IF ~o.body.json
             THEN Result("BinanceAPIError", o.status, <<o.body.text>>, o.body)
             ELSE Classify(o.status, o.body),
     logs |-> <<>>]

PostReturn(o, raised, params) ==
    IF raised
    THEN CASE RequestsException(o) = "ConnectTimeout" ->
                [res |-> Result("ConnectionError", 0, <<"Request timed out after 10s.">>, NoBody),
                 logs |-> <<Line("bot.client", "ERROR",
                                 <<"Request to", ORDER_ENDPOINT, "timed out after 10s">>)>>]
           [] RequestsException(o) = "requests.ConnectionError" ->
                [res |-> Result("ConnectionError", 0,
                                <<"Network error:">> \o MaxRetryText(ORDER_ENDPOINT, params),
                                NoBody),
                 logs |-> <<Line("bot.client", "ERROR",
                                 <<"Network error reaching", ORDER_ENDPOINT>>
                                 \o MaxRetryText(ORDER_ENDPOINT, params))>>]
           [] OTHER ->
                [res |-> Result("RetryError", 0, MaxRetryText(ORDER_ENDPOINT, params), NoBody),
                 logs |-> <<>>]
    ELSE LET seen == Line("bot.client", "DEBUG",
                          <<"Response HTTP", ToString(o.status), "body=", o.body.text>>)
         IN  IF ~o.body.json
             THEN [res |-> Result("BinanceAPIError", 0 - 1,
                                  <<"Non-JSON response:", o.body.text>>, o.body),
                   logs |-> <<seen, Line("bot.client", "ERROR",
                                         <<"Non-JSON response (HTTP", ToString(o.status),
                                           o.body.text>>)>>]
             ELSE LET c == Classify(o.status, o.body) IN
                  [res |-> c,
                   logs |-> IF c.exc = "BinanceAPIError"
                            THEN <<seen, Line("bot.client", "ERROR",
                                              <<"API error", ToString(c.code)>> \o c.msg)>>
                            ELSE <<seen>>]

(***************************************************************************)
(* orders.place_order, lines 140-151, given what send_order ended in.      *)
(***************************************************************************)
\* float(avg_price) raises ValueError
FloatRaises(t) == t = "n/a"

PlaceTail(r) ==
    IF r.exc # "" THEN [res |-> r, logs |-> <<>>]
    ELSE IF r.data.type # "dict"
    THEN [res |-> Result("AttributeError", 0, <<"object has no attribute 'get'">>, r.data),
          logs |-> <<>>]
    ELSE LET placed == Line("bot.orders", "INFO",
                            <<"Order placed | orderId=", ToString(r.data.orderId)>>)
         IN  IF r.data.avgPrice # "" /\ FloatRaises(r.data.avgPrice)
             THEN [res |-> Result("ValueError", 0, <<"could not convert string to float">>,
                                  r.data),
                   logs |-> <<placed>>]
             ELSE [res |-> r, logs |-> <<placed>>]

(***************************************************************************)
(* cli.main, lines 195-224: the handlers around place_order.               *)
(* [code, kind, logs, err]                                                 *)
(***************************************************************************)
MainHandlers(r) ==
    CASE r.exc = "" ->
            [code |-> 0, kind |-> "success", err |-> <<>>,
             logs |-> <<Line("cli", "INFO", <<"Trading bot finished successfully.">>)>>]
      [] r.exc = "ValueError" ->
            [code |-> 1, kind |-> "order", err |-> <<"Order Error">>,
             logs |-> <<Line("cli", "ERROR", <<"Order parameter error:">> \o r.msg)>>]
      [] r.exc = "BinanceAPIError" ->
            [code |-> 1, kind |-> "api", err |-> <<"Binance API Error">>,
             logs |-> <<Line("cli", "ERROR",
                             <<"Binance API error", ToString(r.code)>> \o r.msg)>>]
      [] r.exc = "ConnectionError" ->
            [code |-> 1, kind |-> "network", err |-> <<"Network Error">>,
             logs |-> <<Line("cli", "ERROR", <<"Network error:">> \o r.msg)>>]
      [] OTHER ->
            [code |-> 1, kind |-> "unexpected", err |-> <<"Unexpected Error">>,
             logs |-> <<Line("cli", "ERROR", <<"Unexpected error:">> \o r.msg)>>]

(***************************************************************************)
(* The state of one run.                                                   *)
(***************************************************************************)
VARIABLES
    args,          \* argv: symbol, side, order_type, quantity, price, check_connection
    env,           \* BINANCE_API_KEY, BINANCE_API_SECRET ("" when unset)
    pc,            \* where main is
    exitCode,      \* the process's exit status, -1 while it runs
    exitKind,      \* which handler ended the run ("uncaught": none did)
    uncaught,      \* the exception type that escaped main, "" if none
    stderr,        \* the messages printed on standard error
    trace,         \* the stages of main, in the order they completed
    validated,     \* validate_all's dict
    client,        \* the BinanceFuturesClient: api_key, api_secret
    log,           \* the lines handed to the root logger's handlers
    payload,       \* place_order's payload dict
    signed,        \* _post's signed_params dict
    signedQuery,   \* the query_string _sign computed the HMAC over
    retries,       \* what is left of Retry.total for the request under way
    getAttempts,   \* attempts of the server-time GET
    postAttempts,  \* attempts of the order POST
    postSends,     \* attempts of the order POST that wrote the request to a connection
    lastSent,      \* the kind of outcome the last such attempt had, "none" before it
    wire,          \* the requests written to a connection
    resentAfter,   \* the kinds of outcome after which the order POST was sent again
    resp,          \* what the last attempt ended in
    sendResult,    \* what client.send_order ended in
    result         \* what place_order ended in

vars == <<args, env, pc, exitCode, exitKind, uncaught, stderr, trace, validated,
          client, log, payload, signed, signedQuery, retries, getAttempts,
          postAttempts, postSends, lastSent, wire, resentAfter, resp, sendResult,
          result>>

orderVars == <<validated, client, payload, signed, signedQuery>>
netVars ==
    <<retries, getAttempts, postAttempts, postSends, lastSent, wire, resentAfter, resp,
      sendResult, result>>
exitVars == <<exitCode, exitKind, uncaught, stderr>>

Symbols ==
    { <<"B", "T", "C">>, <<" ", "b", "t", "c">>, <<"B", "T">>, <<"B", "T", "1">>,
      <<" ">>, <<>>, [i \in 1..(SYMBOL_MAX_LEN + 1) |-> "A"] }
Sides == {"BUY", "buy"}
Types == {"MARKET", "LIMIT", "STOP_MARKET", "limit"}
Quantities == {"0.01", "1E+2", "0", "abc", "NaN"}
Prices == {<<>>, <<" ">>, <<"30000">>, <<"-1">>, <<"abc">>, <<"NaN">>}
Environments ==
    { [key |-> "k", secret |-> "s"], [key |-> "", secret |-> "s"],
      [key |-> "k", secret |-> ""] }

Init ==
    /\ args \in [symbol : Symbols, side : Sides, order_type : Types,
                 quantity : Quantities, price : Prices, check_connection : BOOLEAN]
    /\ env \in Environments
    /\ pc = "parse"
    /\ exitCode = 0 - 1
    /\ exitKind = ""
    /\ uncaught = ""
    /\ stderr = <<>>
    /\ trace = <<>>
    /\ validated = NoOrder
    /\ client = [api_key |-> "", api_secret |-> ""]
    /\ log = <<>>
    /\ payload = <<>>
    /\ signed = <<>>
    /\ signedQuery = ""
    /\ retries = 0
    /\ getAttempts = 0
    /\ postAttempts = 0
    /\ postSends = 0
    /\ lastSent = "none"
    /\ wire = {}
    /\ resentAfter = {}
    /\ resp = NoOutcome
    /\ sendResult = NoResult
    /\ result = NoResult

\* sys.exit(code) after printing msg on stderr, or an exception leaving main
Exit(code, kind, exc, msg) ==
    /\ pc' = "exit"
    /\ exitCode' = code
    /\ exitKind' = kind
    /\ uncaught' = exc
    /\ stderr' = stderr \o msg

Goto(next) == pc' = next /\ UNCHANGED exitVars

(***************************************************************************)
(* cli.main, lines 140-146: argparse (choices of --side and --type) and    *)
(* the logging set-up.                                                     *)
(***************************************************************************)
ParseArgs ==
    /\ pc = "parse"
    /\ IF args.side \notin VALID_SIDES \/ args.order_type \notin VALID_ORDER_TYPES
       THEN /\ Exit(2, "usage", "", <<"usage">>)
            /\ UNCHANGED <<log, trace>>
       ELSE /\ Goto("validate")
            /\ log' = Append(log, Line("cli", "INFO", <<"Trading bot started">>))
            /\ trace' = Append(trace, "parse_args")
    /\ UNCHANGED <<args, env>>
    /\ UNCHANGED orderVars
    /\ UNCHANGED netVars

(***************************************************************************)
(* cli.main, lines 148-162: validate_all and its ValueError handler.       *)
(***************************************************************************)
Validate_NoExit ==
    /\ pc = "validate"
    /\ LET r == validate_all(args.symbol, args.side, args.order_type,
                             args.quantity, args.price)
       IN  /\ Goto("credentials")
           /\ validated' = [r.val EXCEPT !.order_type = args.order_type]
           /\ log' = log
           /\ trace' = Append(trace, "validate_all:" \o r.exc)
    /\ UNCHANGED <<args, env, client, payload, signed, signedQuery>>
    /\ UNCHANGED netVars

Validate ==
    /\ pc = "validate"
    /\ LET r == validate_all(args.symbol, args.side, args.order_type,
                             args.quantity, args.price)
       IN  /\ trace' = Append(trace, "validate_all:" \o r.exc)
           /\ CASE r.exc = "" ->
                    /\ Goto("credentials")
                    /\ validated' = r.val
                    /\ log' = Append(log, Line("cli", "DEBUG", <<"Validated inputs">>))
                [] r.exc = "ValueError" ->
                    /\ Exit(1, "validation", "", <<"Validation Error">>)
                    /\ log' = Append(log, Line("cli", "ERROR", <<"Input validation failed">>))
                    /\ UNCHANGED validated
                [] OTHER ->
                    /\ Exit(1, "uncaught", r.exc, <<"Traceback">>)
                    /\ UNCHANGED <<validated, log>>
    /\ UNCHANGED <<args, env, client, payload, signed, signedQuery>>
    /\ UNCHANGED netVars

(***************************************************************************)
(* cli.main line 165 and get_credentials, lines 110-136.                   *)
(***************************************************************************)
GetCredentials_BothMissing ==
    /\ pc = "credentials"
    /\ IF env.key = "" /\ env.secret = ""
       THEN /\ Exit(1, "credentials", "", <<"Missing credentials">>)
            /\ trace' = Append(trace, "get_credentials:missing")
       ELSE /\ Goto("client")
            /\ trace' = Append(trace, "get_credentials:")
    /\ UNCHANGED <<args, env, log>>
    /\ UNCHANGED orderVars
    /\ UNCHANGED netVars

GetCredentials ==
    /\ pc = "credentials"
    /\ IF env.key = "" \/ env.secret = ""
       THEN /\ Exit(1, "credentials", "", <<"Missing credentials">>)
            /\ trace' = Append(trace, "get_credentials:missing")
       ELSE /\ Goto("client")
            /\ trace' = Append(trace, "get_credentials:")
    /\ UNCHANGED <<args, env, log>>
    /\ UNCHANGED orderVars
    /\ UNCHANGED netVars

(***************************************************************************)
(* cli.main, lines 167-175, and BinanceFuturesClient.__init__.             *)
(***************************************************************************)
BuildClient ==
    /\ pc = "client"
    /\ IF env.key = "" \/ env.secret = ""
       THEN /\ Exit(1, "config", "", <<"Configuration Error">>)
            /\ log' = Append(log, Line("cli", "ERROR", <<"Client initialisation failed">>))
            /\ trace' = Append(trace, "client:ValueError")
            /\ UNCHANGED <<client, retries>>
       ELSE /\ client' = [api_key |-> env.key, api_secret |-> env.secret]
            /\ log' = Append(log, Line("bot.client", "DEBUG",
                                       <<"BinanceFuturesClient initialised">>))
            /\ trace' = Append(trace, "client:")
            /\ retries' = RetryTotal
            /\ Goto(IF args.check_connection THEN "get" ELSE "place")
    /\ UNCHANGED <<args, env, validated, payload, signed, signedQuery>>
    /\ UNCHANGED <<getAttempts, postAttempts, postSends, lastSent, wire, resentAfter, resp,
                   sendResult, result>>

(***************************************************************************)
(* One attempt of the server-time GET by the session's connection pool     *)
(* (client._get line 166 under _RETRY).                                    *)
(***************************************************************************)
GetAttempt ==
    /\ pc = "get"
    /\ \E o \in GetOutcomes :
         LET step == RetryStep(retries, o) IN
         /\ resp' = o
         /\ retries' = step.total
         /\ getAttempts' = getAttempts + 1
         /\ wire' = IF o.kind \in {"response", "read_error"}
                    THEN wire \cup {[method |-> "GET", path |-> TIME_ENDPOINT, query |-> <<>>]}
                    ELSE wire
         /\ Goto(IF step.do = "retry" THEN "get" ELSE "get_result")
    /\ UNCHANGED <<args, env, trace, log, postAttempts, postSends, lastSent, resentAfter,
                   sendResult, result>>
    /\ UNCHANGED orderVars

(***************************************************************************)
(* client._get lines 167-170, get_server_time line 180 and cli.main        *)
(* lines 176-183, once the session is done with the GET.                   *)
(***************************************************************************)
\* what get_server_time ends in: "" (returns), ConnectionError, KeyError, TypeError
ServerTime(o, raised) ==
    IF raised THEN "ConnectionError"
    ELSE IF ~ResponseOk(o.status) THEN "ConnectionError"
    ELSE IF ~o.body.json THEN "ConnectionError"
    ELSE IF o.body.type # "dict" THEN "TypeError"
    ELSE IF ~o.body.has_time THEN "KeyError"
    ELSE ""

GetResult_IgnoreFailure ==
    /\ pc = "get_result"
    /\ LET exc == ServerTime(resp, retries < 0) IN
       /\ trace' = Append(trace, "get_server_time:" \o exc)
       /\ Goto("place")
       /\ log' = Append(log, Line("cli", "INFO", <<"Connectivity OK">>))
    /\ UNCHANGED <<args, env>>
    /\ UNCHANGED orderVars
    /\ UNCHANGED netVars

GetResult ==
    /\ pc = "get_result"
    /\ LET exc == ServerTime(resp, retries < 0) IN
       /\ trace' = Append(trace, "get_server_time:" \o exc)
       /\ CASE exc = "" ->
                /\ Goto("place")
                /\ log' = Append(log, Line("cli", "INFO", <<"Connectivity OK">>))
            [] exc = "ConnectionError" ->
                /\ Exit(1, "connectivity", "", <<"Cannot reach Binance Testnet">>)
                /\ log' = Append(log, Line("cli", "ERROR",
                                           <<"Connectivity check failed:", "GET",
                                             TIME_ENDPOINT, "failed">>))
            [] OTHER ->
                /\ Exit(1, "uncaught", exc, <<"Traceback">>)
                /\ UNCHANGED log
    /\ UNCHANGED <<args, env>>
    /\ UNCHANGED orderVars
    /\ UNCHANGED netVars

(***************************************************************************)
(* cli.main lines 186-194, place_order lines 112-140 and _post lines       *)
(* 123-128: the payload, its signature and the request log, up to the      *)
(* session's post().                                                       *)
(***************************************************************************)
SafeLog(params) == Without(params, "signature")

PlaceOrder ==
    /\ pc = "place"
    /\ trace' = Append(trace, "place_order")
    /\ LET b == BuildPayload(validated) IN
       IF b.exc # ""
       THEN /\ LET r == Result(b.exc, 0, <<"orders require a price">>, NoBody)
                   h == MainHandlers(r)
               IN  /\ result' = r
                   /\ Exit(h.code, h.kind, "", h.err)
                   /\ log' = log \o h.logs
            /\ UNCHANGED <<payload, signed, signedQuery, retries>>
       ELSE \E ts \in 1..MaxClock :
            LET sg == _sign(b.val, client.api_secret, ts) IN
            /\ payload' = b.val
            /\ signed' = sg.params
            /\ signedQuery' = sg.query_string
            /\ retries' = RetryTotal
            /\ log' = log \o
                 << Line("bot.orders", "INFO", <<"Placing order">> \o Pieces(b.val)),
                    Line("bot.client", "DEBUG",
                         <<"POST", ORDER_ENDPOINT, "params=">> \o Pieces(SafeLog(sg.params))) >>
            /\ Goto("post")
            /\ UNCHANGED result
    /\ UNCHANGED <<args, env, validated, client>>
    /\ UNCHANGED <<getAttempts, postAttempts, postSends, lastSent, wire, resentAfter, resp,
                   sendResult>>

(***************************************************************************)
(* One attempt of the order POST by the session's connection pool          *)
(* (client._post lines 131-136 under _RETRY).                              *)
(***************************************************************************)
PostAttempt ==
    /\ pc = "post"
    /\ \E o \in PostOutcomes :
         LET step == RetryStep(retries, o) IN
         /\ resp' = o
         /\ retries' = step.total
         /\ postAttempts' = postAttempts + 1
         /\ IF o.kind \in {"response", "read_error"}
            THEN /\ wire' = wire \cup {[method |-> "POST", path |-> ORDER_ENDPOINT,
                                         query |-> Pieces(signed)]}
                 /\ postSends' = postSends + 1
                 /\ lastSent' = OutcomeClass(o)
                 /\ resentAfter' = IF postSends > 0 THEN resentAfter \cup {lastSent}
                                   ELSE resentAfter
            ELSE UNCHANGED <<wire, postSends, lastSent, resentAfter>>
         /\ Goto(IF step.do = "retry" THEN "post" ELSE "post_result")
    /\ UNCHANGED <<args, env, trace, log, getAttempts, sendResult, result>>
    /\ UNCHANGED orderVars

(***************************************************************************)
(* client._post lines 137-160, place_order lines 142-151 and cli.main      *)
(* lines 195-224, once the session is done with the POST.                  *)
(***************************************************************************)
PostResult ==
    /\ pc = "post_result"
    /\ LET sent == PostReturn(resp, retries < 0, signed)
           tail == PlaceTail(sent.res)
           h    == MainHandlers(tail.res)
       IN  /\ sendResult' = sent.res
           /\ result' = tail.res
           /\ log' = log \o sent.logs \o tail.logs \o h.logs
           /\ trace' = Append(trace, "send_order:" \o sent.res.exc)
           /\ Exit(h.code, h.kind, "", h.err)
    /\ UNCHANGED <<args, env>>
    /\ UNCHANGED orderVars
    /\ UNCHANGED <<retries, getAttempts, postAttempts, postSends, lastSent, wire,
                   resentAfter, resp>>

Next ==
    \/ ParseArgs
    \/ Validate
    \/ GetCredentials
    \/ BuildClient
    \/ GetAttempt
    \/ GetResult
    \/ PlaceOrder
    \/ PostAttempt
    \/ PostResult

Spec == Init /\ [][Next]_vars

(***************************************************************************)
(* Properties.                                                             *)
(***************************************************************************)
Exited == pc = "exit"
\* argparse accepted the command line (its own usage errors exit with 2)
Parsed == exitKind # "usage"
CredentialsMissing == env.key = "" \/ env.secret = ""
NoNetwork == getAttempts = 0 /\ postAttempts = 0 /\ postSends = 0 /\ wire = {}
ValidationEvents == {"validate_all:", "validate_all:ValueError", "validate_all:InvalidOperation"}
\* validate_all has run and did not return
ValidationFailed == Len(trace) >= 2 /\ trace[2] # "validate_all:"
ValidationPassed == Len(trace) >= 2 /\ trace[2] = "validate_all:"

\* C1 (as stated): whenever a credential is missing the run ends with exit
\* code 1 and the credentials message, and no validation outcome was observed
\* before the credentials check.
C1_CredentialsBeforeValidation ==
    (Exited /\ Parsed /\ CredentialsMissing) =>
        /\ exitCode = 1
        /\ exitKind = "credentials"
        /\ \A i \in 1..Len(trace) : trace[i] \notin ValidationEvents

\* C1 (amended): whenever a credential is missing the run ends with exit code 1
\* without a client or a network call; the order fields are validated first,
\* so the credentials message is the outcome exactly when validation passed,
\* and otherwise the run ends in the validation step, the credentials unread.
C1_CredentialsAfterValidation ==
    /\ CredentialsMissing => NoNetwork /\ client.api_key = "" /\ payload = <<>>
    /\ (Exited /\ Parsed /\ CredentialsMissing) =>
        /\ exitCode = 1
        /\ exitKind = "credentials" <=> ValidationPassed
        /\ exitKind = "credentials" =>
              /\ trace = <<"parse_args", "validate_all:", "get_credentials:missing">>
              /\ stderr = <<"Missing credentials">>
        /\ exitKind # "credentials" =>
              /\ exitKind \in {"validation", "uncaught"}
              /\ Len(trace) = 2

C1_Witness ==
    /\ Exited
    /\ env.key = ""
    /\ exitKind = "credentials"
    /\ args.check_connection

\* C2: once validation of the order fields has failed the process has exited
\* with code 1 and no network call (server-time GET or order POST) was or will
\* be made; a LIMIT or STOP_MARKET order without --price is such a failure.
C2_NoNetworkOnInvalidInput ==
    /\ ValidationFailed => Exited /\ exitCode = 1 /\ NoNetwork
    /\ (pc \notin {"parse", "validate"} /\ Parsed /\ args.price = <<>>
          /\ args.order_type \in {"LIMIT", "STOP_MARKET"}
          /\ validate_symbol(args.symbol).exc = "" /\ validate_quantity(args.quantity).exc = "")
       => Exited /\ exitKind = "validation" /\ exitCode = 1 /\ NoNetwork

C2_Witness ==
    /\ Exited
    /\ exitKind = "validation"
    /\ args.order_type = "LIMIT"
    /\ args.price = <<>>
    /\ args.quantity = "0.01"
    /\ args.symbol = <<"B", "T", "C">>
    /\ args.check_connection
    /\ ~CredentialsMissing

\* the order POST came back and send_order returned its payload to place_order
OrderPlaced == postAttempts > 0 /\ sendResult.exc = ""

\* C3: every error of main past argument parsing is caught at the entry point
\* and ends the run with exit code 1 after a short message on standard error;
\* no exception escapes main, and exit code 0 means the order was placed.
C3_AllErrorsCaught ==
    (Exited /\ Parsed) =>
        /\ uncaught = ""
        /\ exitKind # "uncaught"
        /\ exitCode \in {0, 1}
        /\ exitCode = 1 => Len(stderr) = 1 /\ stderr[1] # "Traceback"
        /\ exitCode = 0 => OrderPlaced /\ result.exc = ""

\* the session handed _post a response (it did not give up on the request)
PostReturned == Exited /\ postAttempts > 0 /\ retries >= 0 /\ resp.kind = "response"
NonJsonReturned == PostReturned /\ ~resp.body.json
JsonReturned == PostReturned /\ resp.body.json
\* the exchange rejected the order: a JSON object with an error code
Rejected == JsonReturned /\ resp.body.type = "dict" /\ resp.body.has_code /\ resp.body.code # 200

\* C4 (as stated): a response body that does not parse as JSON ends send_order
\* in ProtocolError whatever the HTTP status, a category other than the one an
\* exchange-rejected order ends in.
C4_NonJsonIsProtocolError ==
    NonJsonReturned =>
        /\ sendResult.exc = "ProtocolError"
        /\ sendResult.exc # "BinanceAPIError"

\* C4 (amended): a response body that does not parse as JSON ends send_order in
\* BinanceAPIError with code -1 and the message "Non-JSON response: <text>",
\* whatever the HTTP status of that response (200 included); it is the
\* exception type of an exchange-rejected order and main reports both through
\* the same handler.
C4_NonJsonIsApiErrorMinusOne ==
    /\ NonJsonReturned =>
        /\ sendResult.exc = "BinanceAPIError"
        /\ sendResult.code = 0 - 1
        /\ sendResult.msg = <<"Non-JSON response:", resp.body.text>>
        /\ result = sendResult
        /\ exitKind = "api" /\ exitCode = 1 /\ stderr = <<"Binance API Error">>
    /\ Rejected =>
        /\ sendResult.exc = "BinanceAPIError"
        /\ exitKind = "api" /\ exitCode = 1 /\ stderr = <<"Binance API Error">>

C4_Witness == NonJsonReturned /\ resp.status = 200

\* C5: for every HTTP status and parsed JSON body, send_order ends in ApiError
\* iff the status is not a success status or the body has a code other than
\* 200; the error carries the body's code and msg, else the HTTP status and the
\* raw text; in every other case the parsed body is returned unchanged.
C5_Classification ==
    JsonReturned =>
        LET st == resp.status
            d  == resp.body
            isError == ~ResponseOk(st) \/ (d.has_code /\ d.code # 200)
        IN  /\ sendResult.exc = "BinanceAPIError" <=> isError
            /\ isError =>
                  /\ sendResult.code = (IF d.has_code THEN d.code ELSE st)
                  /\ sendResult.msg = <<IF d.has_msg THEN d.msg ELSE d.text>>
            /\ ~isError => sendResult.exc = "" /\ sendResult.data = d

\* C6 (as stated): the order POST is sent at most 3 times in all, and sent
\* again only after a response with status 429, 500, 502, 503 or 504.
C6_AtMostThreeSends ==
    /\ postSends <= 3
    /\ resentAfter \subseteq {"status_forcelist"}

\* C6 (amended): the order POST is sent at most 4 times in all (once, plus the
\* 3 retries of Retry(total=3)); it is sent again only after a response with
\* status 429, 500, 502, 503 or 504, after a 413 response that carries a
\* Retry-After header, or after a send that brought no response (read timeout,
\* connection broken), never after any other response; once the 3 retries are
\* spent nothing more is sent.
C6_AtMostFourSends ==
    /\ postSends <= RetryTotal + 1
    /\ postSends <= postAttempts /\ postAttempts <= RetryTotal + 1
    /\ resentAfter \subseteq {"status_forcelist", "retry_after_header", "read_error"}
    /\ (pc = "post" /\ postAttempts > 0) =>
          /\ retries = RetryTotal - postAttempts
          /\ OutcomeClass(resp) \notin {"other_response", "none"}
    /\ (pc = "post_result" /\ retries >= 0) =>
          resp.kind = "response" /\ resp.status \notin StatusForcelist

C6_Witness == postSends = RetryTotal + 1 /\ resentAfter = {"status_forcelist"}

\* the signature _sign put in signed_params
Signature == Get(signed, "signature")
Mentions(parts, sig) ==
    \E i \in 1..Len(parts) : parts[i] = sig \/ parts[i] = "signature=" \o sig

\* C7: no log line written during a run holds the signature, on any path
\* through the order POST.
C7_SignatureNeverLogged ==
    signed # <<>> => \A i \in 1..Len(log) : ~Mentions(log[i].parts, Signature)

\* the fields of a dict but the last
AllButLast(q) == SubSeq(q, 1, Len(q) - 1)

\* C8: the signed request is the payload's fields in their order, then
\* recvWindow, timestamp and, last, signature; the signature is the HMAC of
\* the key=value&... string of all the other fields, and every POST on the
\* wire carries those fields, same content and order, before the signature.
C8_SignedLastOverAllFields ==
    signed # <<>> =>
        /\ Keys(signed) = Keys(payload) \o <<"recvWindow", "timestamp", "signature">>
        /\ SubSeq(signed, 1, Len(payload)) = payload
        /\ Get(signed, "recvWindow") = ToString(RecvWindow)
        /\ signedQuery = urlencode(AllButLast(signed))
        /\ Signature = Hmac(env.secret, signedQuery)
        /\ \A w \in wire : w.method = "POST" =>
              /\ JoinAmp(AllButLast(w.query)) = signedQuery
              /\ w.query[Len(w.query)] = "signature=" \o Signature

C8_Witness ==
    /\ \E w \in wire : w.method = "POST"
    /\ validated.order_type = "LIMIT"
    /\ validated.quantity.text = "1E+2"

\* C9: the payload has symbol, side, type and quantity; price and
\* timeInForce=GTC iff the type is LIMIT; stopPrice iff the type is
\* STOP_MARKET; none of the three for MARKET.
C9_PayloadFields ==
    payload # <<>> =>
        LET t == validated.order_type IN
        /\ SubSeq(Keys(payload), 1, 4) = <<"symbol", "side", "type", "quantity">>
        /\ Get(payload, "symbol") = validated.symbol
        /\ Get(payload, "side") = validated.side
        /\ Get(payload, "type") = t
        /\ Get(payload, "quantity") = validated.quantity.text
        /\ HasKey(payload, "price") <=> t = "LIMIT"
        /\ HasKey(payload, "timeInForce") <=> t = "LIMIT"
        /\ t = "LIMIT" => /\ Get(payload, "timeInForce") = "GTC"
                          /\ Get(payload, "price") = validated.price.text
        /\ HasKey(payload, "stopPrice") <=> t = "STOP_MARKET"
        /\ t = "STOP_MARKET" => Get(payload, "stopPrice") = validated.price.text
        /\ t = "MARKET" => Len(payload) = 4

C9_Witness == payload # <<>> /\ validated.order_type = "STOP_MARKET"

\* C10: when validate_all succeeds the price is None iff the type is MARKET
\* and a decimal above zero iff it is LIMIT or STOP_MARKET;
\* validate_price(p, MARKET) is None for every p, and validate_price(None, t)
\* raises ValueError for every other t.
C10_PricePresence ==
    /\ ValidationPassed =>
          /\ validated.price = NoneDec <=> validated.order_type = "MARKET"
          /\ IsPositiveDecimal(validated.price)
                <=> validated.order_type \in {"LIMIT", "STOP_MARKET"}
          /\ validated.price = validate_price(args.price, args.order_type).val
    /\ (Len(trace) >= 2 /\ args.order_type = "MARKET") =>
          validate_price(args.price, args.order_type) = Ret(NoneDec)
    /\ (Len(trace) >= 2 /\ args.order_type # "MARKET" /\ args.price = <<>>) =>
          /\ validate_price(args.price, args.order_type).exc = "ValueError"
          /\ ~ValidationPassed

C10_Witness ==
    /\ ValidationPassed
    /\ validated.order_type = "MARKET"
    /\ args.price = <<"30000">>
    /\ validated.price = NoneDec

\* C11: validate_quantity has two outcomes for every input: a decimal above
\* zero is returned, or ValueError is raised; it raises ValueError for every
\* input that is no number or is not above zero, NaN included, and nothing
\* else escapes it.
C11_QuantityTwoOutcomes ==
    (Len(trace) >= 2 /\ validate_symbol(args.symbol).exc = "") =>
        LET r == validate_quantity(args.quantity) IN
        /\ r.exc \in {"", "ValueError"}
        /\ r.exc = "" => IsPositiveDecimal(r.val)
        /\ ~IsPositiveDecimal(Decimal(args.quantity)) =>
              /\ r.exc = "ValueError"
              /\ Exited /\ exitKind = "validation" /\ uncaught = ""

\* how many entries of a sequence are in a set
RECURSIVE CountIn(_, _)
CountIn(seq, S) ==
    IF seq = <<>> THEN 0
    ELSE (IF Head(seq) \in S THEN 1 ELSE 0) + CountIn(Tail(seq), S)

\* the entries of trace that mark a call of send_order coming back
SendOrderEvents ==
    { "send_order:" \o e :
        e \in {"", "BinanceAPIError", "ConnectionError", "RetryError", "AttributeError",
               "TypeError"} }

PlaceOrderCalls == CountIn(trace, {"place_order"})
SendOrderCalls == CountIn(trace, SendOrderEvents)

\* the part of C12 that counts calls: place_order is entered at most once and
\* send_order comes back at most once, after which nothing more is sent
C12_CallsAtMostOnce ==
    /\ PlaceOrderCalls <= 1
    /\ SendOrderCalls <= PlaceOrderCalls
    /\ SendOrderCalls = 1 => Exited
    /\ postAttempts > 0 => PlaceOrderCalls = 1
    /\ (Exited /\ postAttempts > 0) => SendOrderCalls = 1
    /\ (Exited /\ sendResult.exc \notin {"", "none"}) => result = sendResult

\* C12: place_order calls send_order at most once; when send_order returns,
\* place_order returns that payload; when it fails, place_order passes the
\* error on without a second call; main calls place_order at most once.
C12_SendOrderOnce ==
    /\ PlaceOrderCalls <= 1
    /\ SendOrderCalls <= 1
    /\ (Exited /\ SendOrderCalls = 1) =>
          /\ result = sendResult
          /\ sendResult.exc = "" => result.exc = "" /\ result.data = resp.body

\* C13: send_order returns the parsed response dict, raises BinanceAPIError
\* (also for a final non-success status once the retries are spent) or raises
\* ConnectionError; nothing else leaves the client.
C13_ThreeOutcomes ==
    (Exited /\ SendOrderCalls = 1) =>
        /\ sendResult.exc \in {"", "BinanceAPIError", "ConnectionError"}
        /\ sendResult.exc = "" => sendResult.data.type = "dict"
        /\ (retries < 0 /\ resp.kind = "response") => sendResult.exc = "BinanceAPIError"

\* the connectivity check has run and get_server_time returned
CheckSucceeded == CountIn(trace, {"get_server_time:"}) = 1
CheckFailed ==
    CountIn(trace, {"get_server_time:ConnectionError", "get_server_time:KeyError",
                    "get_server_time:TypeError"}) > 0

\* C14: with --check-connection the server-time GET is made and succeeds
\* before the order POST is made; when the check fails the process exits with
\* code 1 and no order POST is ever made; without --check-connection no
\* server-time GET is made.
C14_CheckBeforeOrder ==
    /\ (args.check_connection /\ (PlaceOrderCalls > 0 \/ postAttempts > 0)) =>
          /\ getAttempts >= 1
          /\ CheckSucceeded
          /\ \E i, j \in 1..Len(trace) :
                i < j /\ trace[i] = "get_server_time:" /\ trace[j] = "place_order"
    /\ CheckFailed =>
          /\ Exited /\ exitCode = 1
          /\ postAttempts = 0 /\ postSends = 0 /\ PlaceOrderCalls = 0
          /\ \A w \in wire : w.method = "GET"
    /\ ~args.check_connection =>
          /\ getAttempts = 0
          /\ ~CheckSucceeded /\ ~CheckFailed
          /\ \A w \in wire : w.method = "POST"

C14_Witness ==
    /\ args.check_connection
    /\ getAttempts > 1
    /\ postSends > 0
    /\ Exited

====
